---- MODULE Spec2Model ----
(***************************************************************************)
(* A model of the p5 sketch core: the process-wide style state of         *)
(* p5/sketch/renderer.py, the style setters and background of              *)
(* p5/core/attribs.py, the primitive factory of p5/core/primitives.py and  *)
(* the per-shape dispatch renderer.draw_shape, which emits commands to the *)
(* vector canvas vg.                                                       *)
(*                                                                         *)
(* Numbers.  Coordinates and extents are integers; every value the code    *)
(* halves is drawn from the even numbers, so x/2 is exact.  Colour         *)
(* components are the normalized components in tenths (1.0 is 10).         *)
(* Tuples are TLA+ sequences and keep their length: a 2-tuple (x, y), a    *)
(* 3-tuple and a Point (x, y, z) are different values, and unpacking a     *)
(* tuple into the wrong number of names raises ValueError as in Python.    *)
(***************************************************************************)
EXTENDS Integers, Sequences, FiniteSets, TLC

VARIABLES
  renderer,        \* the module globals of p5/sketch/renderer.py
  _rect_mode,      \* primitives._rect_mode
  _ellipse_mode,   \* primitives._ellipse_mode
  _image_mode,     \* image._image_mode
  vg,              \* the commands sent to the canvas in the current frame
  last,            \* the last call made and how it ended
  sketch           \* the Sketch instance of p5/sketch/base.py

vars == <<renderer, _rect_mode, _ellipse_mode, _image_mode, vg, last, sketch>>

-----------------------------------------------------------------------------
(* Bounds of the model *)

\* drawing calls (shapes or images) in one frame
MaxCalls == 1
\* largest stroke weight passed to stroke_weight
MaxWeight == 2
\* largest x translation of the global transform
MaxShift == 1
\* curves.curve_resolution, the steps a curve is sampled in
curve_resolution == 3
\* timer ticks that render a frame
MaxTicks == 3

\* shapes drawn one after the other in a frame, where what a shape leaves on
\* the canvas for the next one matters
MaxRendered == 2

\* events waiting in the handler queue at most
MaxQueue == 3
\* most children a drawn shape has
MaxChildren == 2
\* the sketch size, builtins.width and builtins.height
width == 8
height == 6

-----------------------------------------------------------------------------
(* Values *)

\* the renderer's colours: normalised RGBA, in tenths of the 0-1 range
COLOR_WHITE == <<10, 10, 10, 10>>
COLOR_BLACK == <<0, 0, 0, 10>>
COLOR_DEFAULT_BG == <<8, 8, 8, 10>>
\* a colour as a sketch passes it: RGBA in 0-255
GREEN == <<0, 255, 0, 255>>

\* Python's None where a colour is expected
None == <<>>
\* an argument list Color cannot parse
BadColor == <<0>>

\* arguments handed to fill, stroke, tint and background
ColorArgs == {GREEN, BadColor}

IDENTITY == <<1, 0, 0, 1, 0, 0>>

CapNames == {"BUTT", "ROUND", "SQUARE"}
JoinNames == {"MITER", "ROUND", "SQUARE"}
\* strings handed to stroke_cap and stroke_join
CapArgs == CapNames \cup {"MITER", "PROJECT"}
JoinArgs == JoinNames \cup {"BUTT", "BEVEL"}

Weights == 1..MaxWeight

NoShape == [type |-> "none"]
NoArgs == <<>>

\* A call's record: the function called, its arguments, how it ended ("ok" or
\* the exception raised), the function whose body raised ("" when the call
\* returned) and the shape the factory built before drawing it.  A factory
\* call records its mode argument, and its other arguments once they built a
\* shape.
Call(fn, args, outcome, raised_in, shape) ==
  [fn |-> fn, args |-> args, outcome |-> outcome, raised_in |-> raised_in, shape |-> shape,
   returned |-> None]

\* the record of a call that returned a value other than None and the shape
Returning(call, value) == [call EXCEPT !.returned = value]

Ok(fn, args) == Call(fn, args, "ok", "", NoShape)

\* the arguments of a factory call
FactoryArgs(mode, coordinate, args) ==
  [mode |-> mode, coordinate |-> coordinate, args |-> args]

\* what is recorded of them when the call raised before it built a shape
ModeOnly(a) == FactoryArgs(a.mode, <<>>, <<>>)

-----------------------------------------------------------------------------
(* The canvas *)

Cmd(name, args) == <<name, args>>

\* how many of the commands are calls of vg.<name>
CountCmd(cmds, name) == Cardinality({i \in 1..Len(cmds) : cmds[i][1] = name})

\* vg.save() calls not yet matched by a vg.restore()
SaveDepth(cmds) == CountCmd(cmds, "save") - CountCmd(cmds, "restore")

\* drawing calls of the frame: each begins one path
Drawn(cmds) == CountCmd(cmds, "beginPath")

-----------------------------------------------------------------------------
(* Initial state: the module globals as the modules define them *)

Init ==
  /\ renderer = [ background_color   |-> COLOR_DEFAULT_BG,
                  fill_color         |-> COLOR_WHITE,
                  fill_enabled       |-> TRUE,
                  fill_image_enabled |-> "unset",
                  stroke_color       |-> COLOR_BLACK,
                  stroke_enabled     |-> TRUE,
                  stroke_weight      |-> 1,
                  stroke_cap         |-> "BUTT",
                  stroke_join        |-> "MITER",
                  smooth             |-> TRUE,
                  tint_color         |-> COLOR_BLACK,
                  tint_enabled       |-> FALSE,
                  transform_matrix   |-> IDENTITY ]
  /\ _rect_mode = "CORNER"
  /\ _ellipse_mode = "CENTER"
  /\ _image_mode = "corner"
  /\ vg = <<>>
  /\ last = Ok("init", NoArgs)
  /\ sketch = [ looping     |-> TRUE,
                redraw      |-> FALSE,
                setup_done  |-> FALSE,
                frame_count |-> 0,
                timer       |-> "running",
                ran         |-> <<>>,
                frames      |-> <<>>,
                handler_queue    |-> <<>>,
                mouse_is_pressed |-> FALSE ]

-----------------------------------------------------------------------------
(* color.Color: parses its arguments; .normalized is the RGBA tuple scaled *)
(* from 0-255 to the 0-1 range                                             *)

ColorParses(args) == Len(args) = 4
Normalized(args) == [i \in 1..4 |-> (args[i] * 10) \div 255]

-----------------------------------------------------------------------------
(* p5/core/attribs.py: the style setters, as updates of the globals *)

\* the Color object built from the arguments
Color(args) == [normalized |-> Normalized(args)]

\* line 51: return fill_color
FillReturns(c) == Color(c)

do_fill(r, c) ==
  [r EXCEPT !.fill_enabled = TRUE, !.fill_image_enabled = "False",
            !.fill_color = Normalized(c)]

do_no_fill(r) == [r EXCEPT !.fill_enabled = FALSE]

do_stroke(r, c) ==
  [r EXCEPT !.stroke_enabled = TRUE, !.stroke_color = Normalized(c)]

do_no_stroke(r) == [r EXCEPT !.stroke_enabled = FALSE]

do_tint(r, c) ==
  [r EXCEPT !.tint_enabled = TRUE, !.tint_color = Normalized(c)]

do_no_tint(r) == [r EXCEPT !.tint_enabled = FALSE]

\* mutant: a join name passes for a cap
CapAccepted_AnyStyleName(cap) ==
  ~(cap # "BUTT" /\ cap # "ROUND" /\ cap # "SQUARE" /\ cap # "MITER")

\* the guard of stroke_cap: the values that do not raise
CapAccepted(cap) == ~(cap # "BUTT" /\ cap # "ROUND" /\ cap # "SQUARE")

\* the guard of stroke_join: the values that do not raise
JoinAccepted(join) == ~(join # "MITER" /\ join # "ROUND" /\ join # "SQUARE")

Unchanged_but_renderer == UNCHANGED <<_rect_mode, _ellipse_mode, _image_mode, vg, sketch>>

fill(c) ==
  /\ IF ColorParses(c)
       THEN renderer' = do_fill(renderer, c) /\ last' = Returning(Ok("fill", c), FillReturns(c))
       ELSE UNCHANGED renderer /\ last' = Call("fill", c, "ValueError", "Color", NoShape)
  /\ Unchanged_but_renderer

no_fill ==
  /\ renderer' = do_no_fill(renderer)
  /\ last' = Ok("no_fill", NoArgs)
  /\ Unchanged_but_renderer

stroke(c) ==
  /\ IF ColorParses(c)
       THEN renderer' = do_stroke(renderer, c) /\ last' = Ok("stroke", c)
       ELSE UNCHANGED renderer /\ last' = Call("stroke", c, "ValueError", "Color", NoShape)
  /\ Unchanged_but_renderer

no_stroke ==
  /\ renderer' = do_no_stroke(renderer)
  /\ last' = Ok("no_stroke", NoArgs)
  /\ Unchanged_but_renderer

stroke_weight(weight) ==
  /\ renderer' = [renderer EXCEPT !.stroke_weight = weight]
  /\ last' = Ok("stroke_weight", <<weight>>)
  /\ Unchanged_but_renderer

stroke_cap(cap) ==
  /\ IF CapAccepted(cap)
       THEN /\ renderer' = [renderer EXCEPT !.stroke_cap = cap]
            /\ last' = Ok("stroke_cap", <<cap>>)
       ELSE /\ UNCHANGED renderer
            /\ last' = Call("stroke_cap", <<cap>>, "ValueError", "stroke_cap", NoShape)
  /\ Unchanged_but_renderer

stroke_join(join) ==
  /\ IF JoinAccepted(join)
       THEN /\ renderer' = [renderer EXCEPT !.stroke_join = join]
            /\ last' = Ok("stroke_join", <<join>>)
       ELSE /\ UNCHANGED renderer
            /\ last' = Call("stroke_join", <<join>>, "ValueError", "stroke_join", NoShape)
  /\ Unchanged_but_renderer

tint(c) ==
  /\ IF ColorParses(c)
       THEN renderer' = do_tint(renderer, c) /\ last' = Ok("tint", c)
       ELSE UNCHANGED renderer /\ last' = Call("tint", c, "ValueError", "Color", NoShape)
  /\ Unchanged_but_renderer

no_tint ==
  /\ renderer' = do_no_tint(renderer)
  /\ last' = Ok("no_tint", NoArgs)
  /\ Unchanged_but_renderer

smooth ==
  /\ renderer' = [renderer EXCEPT !.smooth = TRUE]
  /\ last' = Ok("smooth", NoArgs)
  /\ Unchanged_but_renderer

no_smooth ==
  /\ renderer' = [renderer EXCEPT !.smooth = FALSE]
  /\ last' = Ok("no_smooth", NoArgs)
  /\ Unchanged_but_renderer

NextAttribs ==
  \/ \E c \in ColorArgs : fill(c)
  \/ no_fill
  \/ \E c \in ColorArgs : stroke(c)
  \/ no_stroke
  \/ \E w \in Weights : stroke_weight(w)
  \/ \E cap \in CapArgs : stroke_cap(cap)
  \/ \E join \in JoinArgs : stroke_join(join)
  \/ \E c \in ColorArgs : tint(c)
  \/ no_tint
  \/ smooth
  \/ no_smooth

\* the style setters alone
SpecAttribs == Init /\ [][NextAttribs]_vars

-----------------------------------------------------------------------------
(* pmath.Point, a namedtuple (x, y, z) whose z defaults to 0 *)

Point(t) == IF Len(t) = 2 THEN <<t[1], t[2], 0>> ELSE t

\* x / 2, exact on the even numbers the inputs are drawn from
Half(x) == x \div 2

-----------------------------------------------------------------------------
(* core.shape.PShape and its subclasses in p5/core/primitives.py *)

\* the attribs string, lower-cased and split into its tags
Attribs(str) ==
  CASE str = "closed"    -> {"closed"}
    [] str = "path"      -> {"path"}
    [] str = "point"     -> {"point"}
    [] str = "OPEN PIE"  -> {"open", "pie"}
    [] str = "OPEN"      -> {"open"}
    [] str = "PIE"       -> {"pie"}
    [] str = "CHORD"     -> {"chord"}
    [] OTHER             -> {}

\* PShape(vertices, attribs): the style is the snapshot of the current style
PShape(r, vertices, attribs) ==
  [ type          |-> "PShape",
    vertices      |-> vertices,
    attribs       |-> Attribs(attribs),
    fill          |-> IF r.fill_enabled THEN r.fill_color ELSE None,
    stroke        |-> IF r.stroke_enabled THEN r.stroke_color ELSE None,
    stroke_weight |-> r.stroke_weight,
    stroke_cap    |-> r.stroke_cap,
    stroke_join   |-> r.stroke_join,
    _matrix       |-> IDENTITY,
    children      |-> <<>> ]

\* PShape.kind
Kind(shape) ==
  IF "point" \in shape.attribs THEN "point"
  ELSE IF "path" \in shape.attribs THEN "path"
  ELSE "poly"

Arc(r, center, radii, start_angle, stop_angle, attribs) ==
  [ type |-> "Arc", _center |-> center, _radii |-> radii,
    _start_angle |-> start_angle, _stop_angle |-> stop_angle ]
  @@ PShape(r, <<>>, attribs)

Rect(r, center, w, h) ==
  [ type |-> "Rect", _center |-> center, _width |-> w, _height |-> h ]
  @@ PShape(r, <<>>, "closed")

Ellipse(r, center, w, h) ==
  [ type |-> "Ellipse", _center |-> center, _width |-> w, _height |-> h ]
  @@ PShape(r, <<>>, "closed")

Bezier(r, start, control_point_1, control_point_2, stop) ==
  [ type |-> "Bezier", _start |-> start, _control_point_1 |-> control_point_1,
    _control_point_2 |-> control_point_2, _stop |-> stop ]
  @@ PShape(r, <<>>, "path")

-----------------------------------------------------------------------------
(* renderer.draw_shape: the commands one shape sends to the canvas.  The   *)
(* result is the commands sent and how the call ended; a failed unpacking  *)
(* ends it with ValueError after the commands sent so far.                 *)

Sent(cmds) == [cmds |-> cmds, outcome |-> "ok"]
Raised(cmds, exc) == [cmds |-> cmds, outcome |-> exc]

Transform(m) == Cmd("transform", m)

\* lines 223-229: moveTo the first vertex, lineTo the others
RECURSIVE WalkVertices(_, _)
WalkVertices(vertices, i) ==
  IF i > Len(vertices) THEN Sent(<<>>)
  ELSE IF Len(vertices[i]) # 2 THEN Raised(<<>>, "ValueError")
  ELSE LET rest == WalkVertices(vertices, i + 1)
           c == Cmd(IF i = 1 THEN "moveTo" ELSE "lineTo", vertices[i])
       IN [cmds |-> <<c>> \o rest.cmds, outcome |-> rest.outcome]

\* mutant: the closing line to the centre is added to every arc
ShapePath_AlwaysPie(shape) ==
  IF shape.type = "Arc" /\ Len(shape._center) = 3 /\ Len(shape._radii) = 3
    THEN Sent(<< Cmd("arc", <<shape._center[1], shape._center[2], shape._radii[1],
                              shape._start_angle, shape._stop_angle, 2>>),
                 Cmd("lineTo", <<shape._center[1], shape._center[2]>>) >>)
    ELSE Raised(<<>>, "ValueError")

\* lines 217-249: the dispatch on the shape's type
ShapePath(shape) ==
  CASE shape.type = "PShape" ->
         IF "point" \in shape.attribs
           THEN IF Len(shape.vertices) = 0 THEN Raised(<<>>, "IndexError")
                ELSE IF Len(shape.vertices[1]) # 2 THEN Raised(<<>>, "ValueError")
                ELSE Sent(<< Cmd("shapeAntiAlias", <<0>>),
                             Cmd("rect", shape.vertices[1] \o <<1, 1>>) >>)
           ELSE WalkVertices(shape.vertices, 1)
    [] shape.type = "Arc" ->
         IF Len(shape._center) # 3 \/ Len(shape._radii) # 3
           THEN Raised(<<>>, "ValueError")
           ELSE LET cx == shape._center[1]
                    cy == shape._center[2]
                    rx == shape._radii[1]
                IN Sent(<< Cmd("arc", <<cx, cy, rx, shape._start_angle,
                                        shape._stop_angle, 2>>) >>
                        \o (IF "pie" \in shape.attribs
                              THEN << Cmd("lineTo", <<cx, cy>>) >> ELSE <<>>))
    [] shape.type = "Ellipse" ->
         IF Len(shape._center) # 2 THEN Raised(<<>>, "ValueError")
         ELSE Sent(<< Cmd("ellipse", shape._center
                          \o <<Half(shape._width), Half(shape._height)>>) >>)
    [] shape.type = "Rect" ->
         IF Len(shape._center) # 2 THEN Raised(<<>>, "ValueError")
         ELSE Sent(<< Cmd("rect", shape._center \o <<shape._width, shape._height>>) >>)
    [] shape.type = "Bezier" ->
         IF \/ Len(shape._start) # 2 \/ Len(shape._control_point_1) # 2
            \/ Len(shape._control_point_2) # 2 \/ Len(shape._stop) # 2
           THEN Raised(<<>>, "ValueError")
           ELSE Sent(<< Cmd("moveTo", shape._start),
                        Cmd("bezierTo", shape._control_point_1
                            \o shape._control_point_2 \o shape._stop) >>)
    [] OTHER -> Sent(<<>>)

\* lines 255-272
CapType(cap) ==
  IF cap = "BUTT" THEN 1 ELSE IF cap = "ROUND" THEN 2
  ELSE IF cap = "SQUARE" THEN 3 ELSE 1

JoinType(join) ==
  IF join = "MITER" THEN 1 ELSE IF join = "ROUND" THEN 2
  ELSE IF join = "SQUARE" THEN 3 ELSE 1

\* mutant: the path is stroked whether or not the shape has a stroke
Paint_StrokeAlways(shape) ==
  (IF Kind(shape) = "poly" /\ shape.fill # None
     THEN << Cmd("fillColor", <<shape.fill[1], shape.fill[3], shape.fill[2], shape.fill[4]>>),
             Cmd("fill", <<>>) >>
     ELSE <<>>)
  \o
  (IF shape.stroke # None
     THEN << Cmd("strokeColor", <<shape.stroke[1], shape.stroke[3], shape.stroke[2],
                                  shape.stroke[4]>>) >>
     ELSE <<>>)
  \o << Cmd("stroke", <<>>) >>

\* lines 274-281: the colour goes to the canvas as (r, b, g, a)
Paint(shape) ==
  (IF Kind(shape) = "poly" /\ shape.fill # None
     THEN << Cmd("fillColor", <<shape.fill[1], shape.fill[3], shape.fill[2], shape.fill[4]>>),
             Cmd("fill", <<>>) >>
     ELSE <<>>)
  \o
  (IF shape.stroke # None
     THEN << Cmd("strokeColor", <<shape.stroke[1], shape.stroke[3], shape.stroke[2],
                                  shape.stroke[4]>>),
             Cmd("stroke", <<>>) >>
     ELSE <<>>)

\* lines 205-281 without line 208: anti-aliasing is left as the shape before
\* left it
renderer_draw_shape_AntiAliasKept(r, shape) ==
  LET open == << Cmd("beginPath", <<>>),
                 Cmd("save", <<>>),
                 Transform(shape._matrix) >>
      path == ShapePath(shape)
  IN IF path.outcome # "ok"
       THEN Raised(open \o path.cmds, path.outcome)
       ELSE Sent(open \o path.cmds
                 \o (IF "closed" \in shape.attribs THEN << Cmd("closePath", <<>>) >> ELSE <<>>)
                 \o << Cmd("restore", <<>>),
                       Cmd("lineCap", <<CapType(shape.stroke_cap)>>),
                       Cmd("lineJoin", <<JoinType(shape.stroke_join)>>),
                       Cmd("strokeWidth", <<shape.stroke_weight>>) >>
                 \o Paint(shape))

\* lines 205-281
renderer_draw_shape(r, shape) ==
  LET open == << Cmd("shapeAntiAlias", <<IF r.smooth THEN 1 ELSE 0>>),
                 Cmd("beginPath", <<>>),
                 Cmd("save", <<>>),
                 Transform(shape._matrix) >>
      path == ShapePath(shape)
  IN IF path.outcome # "ok"
       THEN Raised(open \o path.cmds, path.outcome)
       ELSE Sent(open \o path.cmds
                 \o (IF "closed" \in shape.attribs THEN << Cmd("closePath", <<>>) >> ELSE <<>>)
                 \o << Cmd("restore", <<>>),
                       Cmd("lineCap", <<CapType(shape.stroke_cap)>>),
                       Cmd("lineJoin", <<JoinType(shape.stroke_join)>>),
                       Cmd("strokeWidth", <<shape.stroke_weight>>) >>
                 \o Paint(shape))

\* sketch.base.render
render(r, shape) == renderer_draw_shape(r, shape)

\* primitives.draw_shape: the shape, then a render call for each child,
\* which names the undefined `children`
draw_shape(r, shape) ==
  LET parent == render(r, shape)
  IN IF parent.outcome # "ok" THEN parent
     ELSE IF Len(shape.children) > 0 THEN Raised(parent.cmds, "NameError")
     ELSE parent

-----------------------------------------------------------------------------
(* p5/core/primitives.py: the factory functions.  Each returns the shape   *)
(* it builds or raises; mode "None" stands for an omitted mode argument.   *)

Built(shape) == [outcome |-> "ok", shape |-> shape]
Failed(exc) == [outcome |-> exc, shape |-> NoShape]

\* mutant: the mode is not looked at, every call is read as a CORNER call
rect_func_ModeIgnored(r, rmode, coordinate, args, mode) ==
  LET m == IF mode = "None" THEN rmode ELSE mode
  IN IF Len(args) # 2 THEN Failed("ValueError")
     ELSE Built(Rect(r, coordinate, args[1], args[2]))

\* lines 283-308
rect_func(r, rmode, coordinate, args, mode) ==
  LET m == IF mode = "None" THEN rmode ELSE mode
      center == Point(coordinate)
  IN CASE m = "CORNER" ->
            IF Len(args) # 2 THEN Failed("ValueError")
            ELSE Built(Rect(r, coordinate, args[1], args[2]))
       [] m = "CENTER" ->
            IF Len(args) # 2 THEN Failed("ValueError")
            ELSE Built(Rect(r, <<center[1] - Half(args[1]), center[2] - Half(args[2]),
                                 center[3]>>, args[1], args[2]))
       [] m = "RADIUS" ->
            IF Len(args) # 2 THEN Failed("ValueError")
            ELSE Built(Rect(r, <<center[1] - args[1], center[2] - args[2], center[3]>>,
                            2 * args[1], 2 * args[2]))
       [] m = "CORNERS" ->
            IF Len(args) # 1 THEN Failed("ValueError")
            ELSE LET corner_2 == Point(args[1])
                 IN Built(Rect(r, center, corner_2[1] - center[1], corner_2[2] - center[2]))
       [] OTHER -> Failed("ValueError")

\* lines 448-474: the mode is checked and a centre and extents worked out
\* from it (lines 461-470), and the Ellipse is built from the coordinate as
\* passed and the width and height as unpacked (line 474)
ellipse_func(r, emode, coordinate, args, mode) ==
  LET m0 == IF mode = "None" THEN emode ELSE mode
      corner == Point(coordinate)
  IN IF m0 = "CORNERS" /\ Len(args) # 1 THEN Failed("ValueError")
     ELSE IF m0 # "CORNERS" /\ Len(args) # 2 THEN Failed("ValueError")
     ELSE LET w == IF m0 = "CORNERS" THEN Point(args[1])[1] - corner[1] ELSE args[1]
              h == IF m0 = "CORNERS" THEN Point(args[1])[2] - corner[2] ELSE args[2]
              m == IF m0 = "CORNERS" THEN "CORNER" ELSE m0
          IN IF m \in {"CORNER", "CENTER", "RADIUS"}
               THEN Built(Ellipse(r, coordinate, w, h))
               ELSE Failed("ValueError")

\* mutant: an arc called without a mode is an open arc
ArcMode_DefaultOpen(mode) == IF mode = "omitted" THEN "OPEN" ELSE mode

\* line 360: the mode parameter of arc, 'OPEN PIE' when the call omits it
ArcMode(mode) == IF mode = "omitted" THEN "OPEN PIE" ELSE mode

\* lines 399-418
arc_func(r, emode0, coordinate, w, h, start_angle, stop_angle, mode0, ellipse_mode) ==
  LET emode == IF ellipse_mode = "None" THEN emode0 ELSE ellipse_mode
      mode == ArcMode(mode0)
      corner == Point(coordinate)
  IN CASE emode = "CORNER" ->
            Built(Arc(r, <<corner[1] + Half(w), corner[2] + Half(h), corner[3]>>,
                      <<w, h, 0>>, start_angle, stop_angle, mode))
       [] emode = "CENTER" ->
            Built(Arc(r, corner, <<Half(w), Half(h), 0>>, start_angle, stop_angle, mode))
       [] emode = "RADIUS" ->
            Built(Arc(r, corner, <<w, h, 0>>, start_angle, stop_angle, mode))
       [] OTHER -> Failed("ValueError")

\* line 133
point_func(r, x, y) == Built(PShape(r, << <<x, y>> >>, "point"))

\* lines 149-153
line_func(r, p1, p2) == Built(PShape(r, <<Point(p1), Point(p2)>>, "path"))

\* line 177
bezier_func(r, start, control_point_1, control_point_2, stop) ==
  Built(Bezier(r, start, control_point_1, control_point_2, stop))

\* lines 224-228 and 249-253: an empty PShape, the vertices added in an edit
polygon_func(r, pts) == Built(PShape(r, pts, "closed"))

-----------------------------------------------------------------------------
(* Inputs of the factory calls *)

Coordinates == {<<2, 2>>}
\* (width, height), or half of them in RADIUS mode
DimArgs == {<<4, 2>>}
\* the opposite corner in CORNERS mode
CornerArgs == {<< <<0, 4>> >>}
ShapeArgs == DimArgs \cup CornerArgs
Sides == {4}
ModeNames == {"CORNER", "CENTER", "RADIUS", "CORNERS"}
\* strings handed to rect_mode and ellipse_mode
ModeArgs == {"CENTER", "CORNERS"}
\* the mode argument of a factory call
ModeParams == ModeNames \cup {"DIAGONAL", "None"}
ArcModes == {"OPEN PIE", "OPEN"}
\* the mode argument of an arc call, "omitted" when the call leaves it out
ArcModeParams == ArcModes \cup {"PIE", "CHORD", "omitted"}
\* the ellipse_mode argument of an arc call
ArcEllipseModes == {"CORNER", "CENTER", "RADIUS", "CORNERS", "None"}
\* vertex lists handed to triangle and quad
Triangles == {<< <<0, 0>>, <<4, 0>>, <<2, 2>> >>}
Quads == {<< <<0, 0>>, <<4, 0>>, <<4, 2>>, <<0, 2>> >>}

-----------------------------------------------------------------------------
(* The factory calls as actions *)

Unchanged_by_factory == UNCHANGED <<renderer, _rect_mode, _ellipse_mode, _image_mode, sketch>>

\* _draw_on_return, lines 74-77: s = func(...); draw_shape(s); return s
DrawOnReturn(fn, inner, args, f) ==
  IF f.outcome # "ok"
    THEN /\ last' = Call(fn, ModeOnly(args), f.outcome, inner, NoShape)
         /\ UNCHANGED vg
    ELSE /\ Drawn(vg) < MaxCalls
         /\ LET d == draw_shape(renderer, f.shape)
            IN /\ vg' = vg \o d.cmds
               /\ last' = Call(fn, args, d.outcome,
                               IF d.outcome = "ok" THEN "" ELSE "draw_shape", f.shape)

rect(coordinate, args, mode) ==
  /\ DrawOnReturn("rect", "rect", FactoryArgs(mode, coordinate, args),
                  rect_func(renderer, _rect_mode, coordinate, args, mode))
  /\ Unchanged_by_factory

\* mutant: CORNERS is refused only when passed, not when inherited
square_ExplicitOnly(coordinate, side_length, mode) ==
  LET args == FactoryArgs(mode, coordinate, <<side_length>>)
  IN /\ IF mode = "CORNERS"
          THEN /\ last' = Call("square", ModeOnly(args), "ValueError", "square", NoShape)
               /\ UNCHANGED vg
          ELSE DrawOnReturn("square", "rect", args,
                 rect_func(renderer, _rect_mode, coordinate, <<side_length, side_length>>, mode))
     /\ Unchanged_by_factory

\* lines 338-343
square(coordinate, side_length, mode) ==
  LET m == IF mode = "None" THEN _rect_mode ELSE mode
      args == FactoryArgs(mode, coordinate, <<side_length>>)
  IN /\ IF m = "CORNERS"
          THEN /\ last' = Call("square", ModeOnly(args), "ValueError", "square", NoShape)
               /\ UNCHANGED vg
          ELSE DrawOnReturn("square", "rect", args,
                 rect_func(renderer, _rect_mode, coordinate, <<side_length, side_length>>, m))
     /\ Unchanged_by_factory

\* lines 355-356
rect_mode(mode) ==
  /\ _rect_mode' = mode
  /\ last' = Ok("rect_mode", <<mode>>)
  /\ UNCHANGED <<renderer, _ellipse_mode, _image_mode, vg, sketch>>

arc(coordinate, w, h, start_angle, stop_angle, mode, ellipse_mode) ==
  /\ DrawOnReturn("arc", "arc",
                  FactoryArgs(ellipse_mode, coordinate,
                              <<w, h, start_angle, stop_angle, mode>>),
                  arc_func(renderer, _ellipse_mode, coordinate, w, h,
                           start_angle, stop_angle, mode, ellipse_mode))
  /\ Unchanged_by_factory

ellipse(coordinate, args, mode) ==
  /\ DrawOnReturn("ellipse", "ellipse",
                  FactoryArgs(mode, coordinate, args),
                  ellipse_func(renderer, _ellipse_mode, coordinate, args, mode))
  /\ Unchanged_by_factory

\* lines 504-509
circle(coordinate, radius, mode) ==
  LET m == IF mode = "None" THEN _ellipse_mode ELSE mode
      args == FactoryArgs(mode, coordinate, <<radius>>)
  IN /\ IF m = "CORNERS"
          THEN /\ last' = Call("circle", ModeOnly(args), "ValueError", "circle", NoShape)
               /\ UNCHANGED vg
          ELSE DrawOnReturn("circle", "ellipse", args,
                 ellipse_func(renderer, _ellipse_mode, coordinate, <<radius, radius>>, m))
     /\ Unchanged_by_factory

\* lines 521-522
ellipse_mode(mode) ==
  /\ _ellipse_mode' = mode
  /\ last' = Ok("ellipse_mode", <<mode>>)
  /\ UNCHANGED <<renderer, _rect_mode, _image_mode, vg, sketch>>

point(x, y) ==
  /\ DrawOnReturn("point", "point", FactoryArgs("", <<x, y>>, <<>>), point_func(renderer, x, y))
  /\ Unchanged_by_factory

line(p1, p2) ==
  /\ DrawOnReturn("line", "line", FactoryArgs("", p1, <<p2>>), line_func(renderer, p1, p2))
  /\ Unchanged_by_factory

bezier(start, control_point_1, control_point_2, stop) ==
  /\ DrawOnReturn("bezier", "bezier",
                  FactoryArgs("", start, <<control_point_1, control_point_2, stop>>),
                  bezier_func(renderer, start, control_point_1, control_point_2, stop))
  /\ Unchanged_by_factory

triangle(pts) ==
  /\ DrawOnReturn("triangle", "triangle", FactoryArgs("", <<>>, pts), polygon_func(renderer, pts))
  /\ Unchanged_by_factory

quad(pts) ==
  /\ DrawOnReturn("quad", "quad", FactoryArgs("", <<>>, pts), polygon_func(renderer, pts))
  /\ Unchanged_by_factory

-----------------------------------------------------------------------------
(* renderer.start_render and end_render: a new frame on the canvas *)

\* renderer.apply_transformation, lines 176-183
apply_transformation(r) == Transform(r.transform_matrix)

\* renderer.start_render with the matrix of line 194 left as it was found
renderer_start_render_KeepsMatrix(r) ==
  [ renderer |-> r,
    cmds     |-> << Cmd("beginFrame", <<width, height, 1>>), apply_transformation(r) >> ]

\* renderer.start_render, lines 191-197: the globals it leaves and the
\* commands it sends
renderer_start_render(r) ==
  LET reset == [r EXCEPT !.transform_matrix = IDENTITY]
  IN [ renderer |-> reset,
       cmds     |-> << Cmd("beginFrame", <<width, height, 1>>), apply_transformation(reset) >> ]

\* lines 191-197
start_render ==
  /\ renderer' = renderer_start_render(renderer).renderer
  /\ vg' = renderer_start_render(renderer).cmds
  /\ last' = Ok("start_render", NoArgs)
  /\ UNCHANGED <<_rect_mode, _ellipse_mode, _image_mode, sketch>>

-----------------------------------------------------------------------------
(* core.transforms and core.structure: the scoped pushes *)

\* transforms.translate by one unit of x
Translated(r) == [r EXCEPT !.transform_matrix[5] = @ + 1]

translate ==
  /\ renderer.transform_matrix[5] < MaxShift
  /\ renderer' = Translated(renderer)
  /\ last' = Ok("translate", NoArgs)
  /\ Unchanged_but_renderer

\* transforms.reset_transforms
reset_transforms(r) == [r EXCEPT !.transform_matrix = IDENTITY]

\* push_matrix: on leaving the block, by return or by exception, the
\* transform is the one saved on entering it
pop_matrix(saved, r) == [r EXCEPT !.transform_matrix = saved.transform_matrix]

\* push_style: on leaving the block, by return or by exception, the style
\* is the one saved on entering it
pop_style(saved, r) ==
  [r EXCEPT !.fill_color = saved.fill_color,
            !.fill_enabled = saved.fill_enabled,
            !.stroke_color = saved.stroke_color,
            !.stroke_enabled = saved.stroke_enabled,
            !.stroke_weight = saved.stroke_weight,
            !.stroke_cap = saved.stroke_cap,
            !.stroke_join = saved.stroke_join,
            !.tint_color = saved.tint_color,
            !.tint_enabled = saved.tint_enabled,
            !.smooth = saved.smooth]

-----------------------------------------------------------------------------
(* renderer.render_image and attribs.background *)

\* a PImage: its size and its texture handle
Image(size) == [size |-> size, _texture |-> 1]

\* images handed to background: of the sketch's size, and narrower
Images == {Image(<<width, height>>), Image(<<width - 2, height>>)}

\* renderer.render_image, lines 166-174
render_image(r, image, location, size) ==
  << Cmd("imagePattern", <<0, 0, size[1], size[2], 0, image._texture, 1>>),
     apply_transformation(r),
     Cmd("beginPath", <<>>),
     Cmd("rect", <<location[1], location[2], size[1], size[2]>>),
     Cmd("fillPaint", <<>>),
     Cmd("fill", <<>>) >>

\* image.image(img, location): the image at its own size
image(r, img, location) == render_image(r, img, location, img.size)

\* mutant: only the heights are compared
SizeMismatch_HeightOnly(img) == height # img.size[2]

\* attribs.background, line 169: the image is not of the sketch's size
SizeMismatch(img) == <<width, height>> # img.size

\* mutant: no_tint is called outside any pushed style
BackgroundImage_NoPushStyle(r, img) ==
  LET inside == do_no_tint(r)
  IN [renderer |-> pop_matrix(inside, inside),
      cmds |-> image(inside, img, <<0, 0>>),
      outcome |-> "ok"]

\* attribs.background, lines 173-177: the globals inside the two blocks and
\* the commands sent, then the globals once both blocks are left
BackgroundImage(r, img) ==
  LET inside == do_no_tint(r)
  IN [renderer |-> pop_style(r, pop_matrix(inside, inside)),
      cmds |-> image(inside, img, <<0, 0>>),
      outcome |-> "ok"]

\* lines 165-179
background_image(img) ==
  /\ IF SizeMismatch(img)
       THEN /\ last' = Call("background", [image |-> img.size], "ValueError", "background", NoShape)
            /\ UNCHANGED <<renderer, vg, _image_mode>>
       ELSE /\ Drawn(vg) < MaxCalls
            /\ LET b == BackgroundImage(renderer, img)
               IN /\ renderer' = b.renderer
                  /\ vg' = vg \o b.cmds
                  /\ last' = Returning(Call("background", [image |-> img.size], b.outcome,
                                             "", NoShape), img)
            /\ _image_mode' = "corner"
  /\ UNCHANGED <<_rect_mode, _ellipse_mode, sketch>>

\* mutant: the transform is reset outside any pushed matrix
BackgroundColor_NoPushMatrix(r, args) ==
  IF ~ColorParses(args)
    THEN [renderer |-> pop_style(r, r), cmds |-> <<>>, outcome |-> "ValueError",
          raised_in |-> "Color", shape |-> NoShape]
    ELSE LET inside == reset_transforms(do_no_stroke(do_fill(r, args)))
             f == rect_func(inside, "CORNER", <<0, 0>>, <<width, height>>, "CORNER")
             d == draw_shape(inside, f.shape)
         IN [renderer |-> pop_style(r, [inside EXCEPT !.background_color = Normalized(args)]),
             cmds |-> d.cmds, outcome |-> d.outcome,
             raised_in |-> IF d.outcome = "ok" THEN "" ELSE "draw_shape",
             shape |-> f.shape]

\* attribs.background, lines 181-189: the globals and the commands sent once
\* both blocks are left; the rect is drawn under the style and the
\* transform set inside them
BackgroundColor(r, args) ==
  IF ~ColorParses(args)
    THEN [renderer |-> pop_style(r, r), cmds |-> <<>>, outcome |-> "ValueError",
          raised_in |-> "Color", shape |-> NoShape]
    ELSE LET styled == do_no_stroke(do_fill(r, args))
             inside == reset_transforms(styled)
             f == rect_func(inside, "CORNER", <<0, 0>>, <<width, height>>, "CORNER")
             d == draw_shape(inside, f.shape)
             done == IF d.outcome = "ok"
                       THEN [inside EXCEPT !.background_color = Normalized(args)]
                       ELSE inside
         IN [renderer |-> pop_style(r, pop_matrix(styled, done)),
             cmds |-> d.cmds, outcome |-> d.outcome,
             raised_in |-> IF d.outcome = "ok" THEN "" ELSE "draw_shape",
             shape |-> f.shape]

background_color(args) ==
  /\ ColorParses(args) => Drawn(vg) < MaxCalls
  /\ LET b == BackgroundColor(renderer, args)
     IN /\ renderer' = b.renderer
        /\ vg' = vg \o b.cmds
        /\ last' = Call("background", [color |-> args], b.outcome, b.raised_in, b.shape)
  /\ UNCHANGED <<_rect_mode, _ellipse_mode, _image_mode, sketch>>

NextBackground ==
  \/ \E c \in ColorArgs : fill(c)
  \/ no_fill
  \/ \E c \in ColorArgs : stroke(c)
  \/ no_stroke
  \/ \E c \in ColorArgs : tint(c)
  \/ no_tint
  \/ translate
  \/ \E img \in Images : background_image(img)
  \/ \E c \in ColorArgs : background_color(c)
  \/ start_render

\* background under any ambient fill, stroke, tint and transform
SpecBackground == Init /\ [][NextBackground]_vars

NextShapes ==
  \/ \E m \in ModeArgs : rect_mode(m)
  \/ \E m \in ModeArgs : ellipse_mode(m)
  \/ \E c \in Coordinates, a \in ShapeArgs, m \in ModeParams : rect(c, a, m)
  \/ \E c \in Coordinates, s \in Sides, m \in ModeParams : square(c, s, m)
  \/ \E c \in Coordinates, a \in ShapeArgs, m \in ModeParams : ellipse(c, a, m)
  \/ \E c \in Coordinates, s \in Sides, m \in ModeParams : circle(c, s, m)
  \/ \E c \in Coordinates, a \in DimArgs, am \in ArcModes, m \in ModeParams :
       arc(c, a[1], a[2], 0, 3, am, m)
  \/ \E c \in Coordinates : Len(c) = 2 /\ point(c[1], c[2])
  \/ \E p \in Coordinates : line(<<0, 0>>, p)
  \/ \E p \in Coordinates : bezier(<<0, 0>>, <<0, 2>>, <<2, 4>>, p)
  \/ \E pts \in Triangles : triangle(pts)
  \/ \E pts \in Quads : quad(pts)
  \/ start_render

\* the primitive factory and the renderer dispatch, under the default style
SpecShapes == Init /\ [][NextShapes]_vars

-----------------------------------------------------------------------------
(* Shapes a sketch keeps: create_shape, children, and draw_shape called on  *)
(* a shape the sketch holds                                                 *)

\* PShape.add_child: the child goes to the end of the parent's children
add_child(shape, child) == [shape EXCEPT !.children = Append(@, child)]

\* a triangle with n points as children, added in the order 1..n
RECURSIVE Group(_, _)
Group(r, n) ==
  IF n = 0 THEN polygon_func(r, << <<0, 0>>, <<4, 0>>, <<2, 2>> >>).shape
  ELSE add_child(Group(r, n - 1), point_func(r, n, n).shape)

\* a shape of a class the sketch derives from PShape
Custom(r) == [type |-> "Custom"] @@ PShape(r, <<>>, "closed")

\* the shapes a sketch hands to draw_shape
Retained(r) == {Group(r, n) : n \in 0..MaxChildren} \cup {Custom(r)}

\* primitives.draw_shape called by the sketch on a shape it holds
draw_shape_of(shape) ==
  /\ Drawn(vg) < MaxCalls
  /\ LET d == draw_shape(renderer, shape)
     IN /\ vg' = vg \o d.cmds
        /\ last' = Call("draw_shape", NoArgs, d.outcome,
                        IF d.outcome = "ok" THEN "" ELSE "draw_shape", shape)
  /\ Unchanged_by_factory

\* lines 338-343, the function under the decorator
square_func(r, rmode, coordinate, side_length, mode) ==
  LET m == IF mode = "None" THEN rmode ELSE mode
  IN IF m = "CORNERS" THEN Failed("ValueError")
     ELSE rect_func(r, rmode, coordinate, <<side_length, side_length>>, m)

\* lines 504-509, the function under the decorator
circle_func(r, emode, coordinate, radius, mode) ==
  LET m == IF mode = "None" THEN emode ELSE mode
  IN IF m = "CORNERS" THEN Failed("ValueError")
     ELSE ellipse_func(r, emode, coordinate, <<radius, radius>>, m)

\* the keys of shape_map, "None" for None
ShapeKinds ==
  {"arc", "circle", "ellipse", "line", "point", "quad", "rect", "square", "triangle", "None"}

\* lines 569-584: shape_map[kind](*args); every entry but None's is a
\* function wrapped by _draw_on_return
ShapeMap(r, rmode, emode, kind, args) ==
  CASE kind = "arc"      -> arc_func(r, emode, args[1], args[2], args[3], args[4], args[5],
                                     "omitted", "None")
    [] kind = "circle"   -> circle_func(r, emode, args[1], args[2], "None")
    [] kind = "ellipse"  -> ellipse_func(r, emode, args[1], Tail(args), "None")
    [] kind = "line"     -> line_func(r, args[1], args[2])
    [] kind = "point"    -> point_func(r, args[1], args[2])
    [] kind = "quad"     -> polygon_func(r, args)
    [] kind = "rect"     -> rect_func(r, rmode, args[1], Tail(args), "None")
    [] kind = "square"   -> square_func(r, rmode, args[1], args[2], "None")
    [] kind = "triangle" -> polygon_func(r, args)
    [] OTHER             -> Built(PShape(r, <<>>, "closed"))

\* the arguments passed on to the factory of each kind
KindArgs(kind) ==
  CASE kind = "arc"      -> {<< <<2, 2>>, 4, 2, 0, 3 >>}
    [] kind = "circle"   -> {<< <<2, 2>>, 4 >>}
    [] kind = "ellipse"  -> {<< <<2, 2>>, 4, 2 >>}
    [] kind = "line"     -> {<< <<0, 0>>, <<2, 2>> >>}
    [] kind = "point"    -> {<< 2, 2 >>}
    [] kind = "quad"     -> Quads
    [] kind = "rect"     -> {<< <<2, 2>>, 4, 2 >>}
    [] kind = "square"   -> {<< <<2, 2>>, 4 >>}
    [] kind = "triangle" -> Triangles
    [] OTHER             -> {<<>>}

\* lines 538-584
create_shape(kind, args) ==
  LET a == [kind |-> kind, args |-> args]
  IN /\ IF kind \notin ShapeKinds
          THEN /\ last' = Call("create_shape", a, "KeyError", "create_shape", NoShape)
               /\ UNCHANGED vg
          ELSE LET f == ShapeMap(renderer, _rect_mode, _ellipse_mode, kind, args)
               IN IF kind = "None"
                    THEN /\ last' = Call("create_shape", a, "ok", "", f.shape)
                         /\ UNCHANGED vg
                    ELSE IF f.outcome # "ok"
                    THEN /\ last' = Call("create_shape", a, f.outcome, kind, NoShape)
                         /\ UNCHANGED vg
                    ELSE /\ Drawn(vg) < MaxCalls
                         /\ LET d == draw_shape(renderer, f.shape)
                            IN /\ vg' = vg \o d.cmds
                               /\ last' = Call("create_shape", a, d.outcome,
                                               IF d.outcome = "ok" THEN "" ELSE "draw_shape",
                                               f.shape)
     /\ Unchanged_by_factory

NextRetained ==
  \/ \E kind \in ShapeKinds \cup {"box"} : \E args \in KindArgs(kind) : create_shape(kind, args)
  \/ \E shape \in Retained(renderer) : draw_shape_of(shape)
  \/ \E m \in ModeArgs : rect_mode(m)
  \/ no_fill
  \/ no_stroke
  \/ no_smooth
  \/ start_render

\* create_shape and draw_shape on shapes with children and of other classes
SpecRetained == Init /\ [][NextRetained]_vars

-----------------------------------------------------------------------------
(* primitives.curve and pmath.curves.curve_point.  A sampled coordinate is   *)
(* a fraction; the model keeps its numerator over CurveScale(steps).        *)

CurveScale(steps) == 2 * steps * steps * steps

\* a control point's coordinates in the same units
Scaled(p, steps) == [k \in 1..Len(p) |-> p[k] * CurveScale(steps)]

\* the Catmull-Rom polynomial of one coordinate at t = i / steps:
\* (2 b + (c - a) t + (2a - 5b + 4c - d) t^2 + (3b - a - 3c + d) t^3) / 2
CatmullRom(a, b, c, d, i, steps) ==
  2 * b * steps * steps * steps
  + (c - a) * i * steps * steps
  + (2 * a - 5 * b + 4 * c - d) * i * i * steps
  + (3 * b - a - 3 * c + d) * i * i * i

\* the components curve_point gives for control points of two: two, or
\* three with a z of zero
CurvePointDims == {2, 3}

\* curves.curve_point(point_1, point_2, point_3, point_4, i / steps)
curve_point(point_1, point_2, point_3, point_4, i, steps, dims) ==
  [k \in 1..dims |->
     IF k <= Len(point_2)
       THEN CatmullRom(point_1[k], point_2[k], point_3[k], point_4[k], i, steps)
       ELSE 0]

\* p[:3]
Take3(p) == SubSeq(p, 1, IF Len(p) < 3 THEN Len(p) ELSE 3)

\* mutant: the last sample, t = 1, is left out
curve_func_OneSampleShort(r, point_1, point_2, point_3, point_4, dims) ==
  Built(PShape(r, [j \in 1..curve_resolution |->
                     Take3(curve_point(point_1, point_2, point_3, point_4,
                                       j - 1, curve_resolution, dims))], "path"))

\* lines 199-206
curve_func(r, point_1, point_2, point_3, point_4, dims) ==
  LET steps == curve_resolution
      vertices == [j \in 1..(steps + 1) |->
                     Take3(curve_point(point_1, point_2, point_3, point_4,
                                       j - 1, steps, dims))]
  IN Built(PShape(r, vertices, "path"))

\* the four control points of a curve call
CurveArgs == { << <<0, 0>>, <<1, 2>>, <<3, 2>>, <<4, 0>> >>,
               << <<0, 2>>, <<2, 0>>, <<2, 3>>, <<1, 1>> >> }

curve(pts, dims) ==
  /\ DrawOnReturn("curve", "curve", FactoryArgs("", <<>>, pts),
                  curve_func(renderer, pts[1], pts[2], pts[3], pts[4], dims))
  /\ Unchanged_by_factory

NextCurves ==
  \/ \E pts \in CurveArgs, dims \in CurvePointDims : curve(pts, dims)
  \/ \E w \in Weights : stroke_weight(w)
  \/ no_fill
  \/ no_stroke
  \/ smooth
  \/ no_smooth
  \/ start_render

\* curve under several styles
SpecCurves == Init /\ [][NextCurves]_vars

-----------------------------------------------------------------------------
(* p5/sketch/base.py: the Sketch and its timer *)

\* how one run of setup_method or draw_method, the sketch's own code, ends
CallbackRuns == {"returns", "raises"}

\* what the callback calls before it ends
CallbackDoes == {"nothing", "no_loop", "redraw", "translate"}

\* the timer after a callback raised out of on_timer: the event loop, which
\* is not part of this repository, drops the exception and ticks again, or
\* the exception ends the run
TimerAfterRaise == {"running", "stopped"}

\* one run of a callback: the frame it ran in, what it called and how it ended
Ran(callback, frame, called, outcome) ==
  [callback |-> callback, frame |-> frame, called |-> called, outcome |-> outcome]

\* no_loop() and loop(): assignments to Sketch.looping
no_loop ==
  /\ sketch' = [sketch EXCEPT !.looping = FALSE]
  /\ last' = Ok("no_loop", NoArgs)
  /\ UNCHANGED <<renderer, _rect_mode, _ellipse_mode, _image_mode, vg>>

loop ==
  /\ sketch' = [sketch EXCEPT !.looping = TRUE]
  /\ last' = Ok("loop", NoArgs)
  /\ UNCHANGED <<renderer, _rect_mode, _ellipse_mode, _image_mode, vg>>

\* redraw(): assignment to Sketch.redraw
redraw ==
  /\ sketch' = [sketch EXCEPT !.redraw = TRUE]
  /\ last' = Ok("redraw", NoArgs)
  /\ UNCHANGED <<renderer, _rect_mode, _ellipse_mode, _image_mode, vg>>

\* renderer.end_render, lines 200-203
end_render(cmds) == cmds \o << Cmd("endFrame", <<>>) >>

\* events.MouseEvent and events.KeyEvent, by the flag a callback gives them
MouseEvent(active) == [kind |-> "mouse", active |-> active]
KeyEvent(active) == [kind |-> "key", active |-> active]

\* event._update_builtins: a mouse event publishes its flag as
\* builtins.mouse_is_pressed
_update_builtins(sk, event) ==
  IF event.kind = "mouse" THEN [sk EXCEPT !.mouse_is_pressed = event.active] ELSE sk

\* Sketch._enqueue_event, lines 173-175
_enqueue_event(sk, handler_name, event) ==
  [ _update_builtins(sk, event) EXCEPT
      !.handler_queue = Append(@, [handler |-> handler_name, event |-> event]) ]

\* the handlers of a queue, in its order
Handlers(queue) == [i \in 1..Len(queue) |-> queue[i].handler]

\* the loop of lines 131-134: every entry popped from the front and handled
RECURSIVE HandleQueue(_)
HandleQueue(sk) ==
  IF sk.handler_queue = <<>>
    THEN sk
    ELSE HandleQueue([ _update_builtins(sk, Head(sk.handler_queue).event) EXCEPT
                         !.handler_queue = Tail(@) ])

\* Sketch.on_timer, lines 114-138, with what the callback it runs does, how
\* the callback ends, and what becomes of the timer if it raises; the record
\* of the call lists what the tick ran, in order
on_timer(does, body, after) ==
  /\ sketch.timer = "running"
  /\ IF sketch.looping \/ sketch.redraw
       THEN /\ sketch.frame_count < MaxTicks
            /\ LET frame == sketch.frame_count + 1
                   callback == IF ~sketch.setup_done THEN "setup_method" ELSE "draw_method"
                   started == renderer_start_render(renderer)
                   entered == IF callback = "setup_method"
                                THEN [sketch EXCEPT !.frame_count = frame]
                                ELSE [sketch EXCEPT !.frame_count = frame, !.redraw = FALSE]
                   inside == IF does = "no_loop" THEN [entered EXCEPT !.looping = FALSE]
                             ELSE IF does = "redraw" THEN [entered EXCEPT !.redraw = TRUE]
                             ELSE entered
                   ran == <<"start_render", callback>>
                          \o (IF does = "nothing" THEN <<>> ELSE <<does>>)
                   log == Append(sketch.ran, Ran(callback, frame, does, body))
               IN /\ renderer' = IF does = "translate"
                                   THEN Translated(started.renderer)
                                   ELSE started.renderer
                  /\ IF body = "raises"
                       THEN /\ sketch' = [inside EXCEPT !.ran = log, !.timer = after,
                                                        !.frames = Append(@, "beginFrame")]
                            /\ vg' = started.cmds
                            /\ last' = Call("on_timer", ran,
                                            "Exception", callback, NoShape)
                       ELSE /\ after = "running"
                            /\ LET returned == IF callback = "setup_method"
                                                 THEN [inside EXCEPT !.setup_done = TRUE,
                                                                     !.redraw = TRUE]
                                                 ELSE inside
                               IN sketch' = HandleQueue(
                                              [returned EXCEPT
                                                 !.ran = log,
                                                 !.frames = @ \o <<"beginFrame", "endFrame">>])
                            /\ vg' = end_render(started.cmds)
                            /\ last' = Ok("on_timer", ran \o <<"end_render">>
                                                      \o Handlers(sketch.handler_queue))
       ELSE /\ does = "nothing" /\ body = "returns" /\ after = "running"
            /\ sketch' = HandleQueue(sketch)
            /\ last' = Ok("on_timer", Handlers(sketch.handler_queue))
            /\ UNCHANGED <<renderer, vg>>
  /\ UNCHANGED <<_rect_mode, _ellipse_mode, _image_mode>>

NextSketch ==
  \/ \E does \in CallbackDoes, body \in CallbackRuns, after \in TimerAfterRaise :
       on_timer(does, body, after)
  \/ no_loop
  \/ loop
  \/ redraw
  \/ translate

\* the timer ticks of a sketch whose code may switch the loop off and on,
\* ask for a redraw, move the transform, and raise
SpecSketch == Init /\ [][NextSketch]_vars

\* an input callback of the window that enqueues the handlers of `entries`
Enqueued(fn, entries) ==
  /\ Len(sketch.handler_queue) + 2 <= MaxQueue
  /\ sketch' = entries
  /\ last' = Ok(fn, NoArgs)
  /\ UNCHANGED <<renderer, _rect_mode, _ellipse_mode, _image_mode, vg>>

\* lines 177-179
on_key_press ==
  Enqueued("on_key_press", _enqueue_event(sketch, "key_pressed", KeyEvent(TRUE)))

\* lines 181-185; text is the event's text
on_key_release(text) ==
  LET kev == KeyEvent(FALSE)
      released == _enqueue_event(sketch, "key_released", kev)
  IN Enqueued("on_key_release",
              IF text # "" THEN _enqueue_event(released, "key_typed", kev) ELSE released)

\* lines 187-189
on_mouse_press ==
  Enqueued("on_mouse_press", _enqueue_event(sketch, "mouse_pressed", MouseEvent(TRUE)))

\* lines 195-198
on_mouse_release ==
  LET mev == MouseEvent(FALSE)
  IN Enqueued("on_mouse_release",
              _enqueue_event(_enqueue_event(sketch, "mouse_released", mev),
                             "mouse_clicked", mev))

\* lines 200-204
on_mouse_move ==
  LET mev == MouseEvent(sketch.mouse_is_pressed)
      moved == _enqueue_event(sketch, "mouse_moved", mev)
  IN Enqueued("on_mouse_move",
              IF moved.mouse_is_pressed
                THEN _enqueue_event(moved, "mouse_dragged", mev)
                ELSE moved)

\* the texts of a key event: none, and a character
KeyTexts == {"", "a"}

NextEvents ==
  \/ \E body \in CallbackRuns, after \in TimerAfterRaise : on_timer("nothing", body, after)
  \/ on_key_press
  \/ \E text \in KeyTexts : on_key_release(text)
  \/ on_mouse_press
  \/ on_mouse_release
  \/ on_mouse_move

\* input arriving between the timer ticks of a sketch whose callbacks may raise
SpecEvents == Init /\ [][NextEvents]_vars

NextArcs ==
  \/ \E m \in ModeArgs \cup {"RADIUS"} : ellipse_mode(m)
  \/ \E c \in Coordinates, a \in DimArgs, am \in ArcModeParams, m \in ArcEllipseModes :
       arc(c, a[1], a[2], 0, 3, am, m)
  \/ start_render

\* arc in every arc mode and every ellipse mode, passed or inherited
SpecArcs == Init /\ [][NextArcs]_vars

NextStyles ==
  \/ fill(GREEN)
  \/ no_fill
  \/ stroke(GREEN)
  \/ no_stroke
  \/ \E c \in Coordinates, a \in DimArgs : rect(c, a, "None")
  \/ \E c \in Coordinates : point(c[1], c[2])
  \/ \E p \in Coordinates : bezier(<<0, 0>>, <<0, 2>>, <<2, 4>>, p)
  \/ \E c \in Coordinates, a \in DimArgs : arc(c, a[1], a[2], 0, 3, "omitted", "None")

\* shapes of the three kinds drawn under every fill and stroke setting
SpecStyles == Init /\ [][NextStyles]_vars

\* the renderer's globals with the stroke style a sketch had set
Styled(r, cap, join, weight) ==
  [r EXCEPT !.stroke_cap = cap, !.stroke_join = join, !.stroke_weight = weight]

\* shapes of the fillable kinds a sketch built under a stroke style of its
\* own and kept: a triangle, a rect by its corner, a rect by its centre, an
\* ellipse and an arc
Kept(r) ==
  UNION { LET own == Styled(r, cap, join, weight)
          IN { polygon_func(own, << <<0, 0>>, <<4, 0>>, <<2, 2>> >>).shape,
               rect_func(own, "CORNER", <<2, 2>>, <<4, 2>>, "None").shape,
               rect_func(own, "CORNER", <<2, 2>>, <<4, 2>>, "CENTER").shape,
               ellipse_func(own, "CENTER", <<2, 2>>, <<4, 2>>, "None").shape,
               arc_func(own, "CENTER", <<2, 2>>, 4, 2, 0, 3, "omitted", "None").shape }
          : cap \in CapNames, join \in JoinNames, weight \in Weights }

NextPaint ==
  \/ fill(GREEN)
  \/ no_fill
  \/ stroke(GREEN)
  \/ no_stroke
  \/ \E shape \in Kept(renderer) : draw_shape_of(shape)
  \/ start_render

\* kept shapes of every stroke style drawn under every fill and stroke setting
SpecPaint == Init /\ [][NextPaint]_vars

\* shapes a sketch draws one after the other: a point, a triangle, a rect
\* and an arc
Sequel(r) ==
  { point_func(r, 2, 2).shape,
    polygon_func(r, << <<0, 0>>, <<4, 0>>, <<2, 2>> >>).shape,
    rect_func(r, "CORNER", <<2, 2>>, <<4, 2>>, "None").shape,
    arc_func(r, "CENTER", <<2, 2>>, 4, 2, 0, 3, "omitted", "None").shape }

\* primitives.draw_shape called on a further shape of the frame
draw_next(shape) ==
  /\ Drawn(vg) < MaxRendered
  /\ LET d == draw_shape(renderer, shape)
     IN /\ vg' = vg \o d.cmds
        /\ last' = Call("draw_shape", NoArgs, d.outcome,
                        IF d.outcome = "ok" THEN "" ELSE "draw_shape", shape)
  /\ Unchanged_by_factory

NextPoints ==
  \/ smooth
  \/ no_smooth
  \/ no_fill
  \/ \E shape \in Sequel(renderer) : draw_next(shape)
  \/ start_render

\* points and other shapes drawn one after the other, smooth on and off
SpecPoints == Init /\ [][NextPoints]_vars

-----------------------------------------------------------------------------
(* Every call a sketch can make *)

Next == NextAttribs \/ NextBackground \/ NextShapes \/ NextArcs \/ NextStyles \/ NextRetained
        \/ NextSketch \/ NextCurves \/ NextEvents \/ NextPaint \/ NextPoints

Spec == Init /\ [][Next]_vars


-----------------------------------------------------------------------------
(* Properties *)

\* the mode a factory call works with: its argument, or the inherited one
EffMode(mode, inherited) == IF mode = "None" THEN inherited ELSE mode

InLog(cmd) == \E i \in 1..Len(vg) : vg[i] = cmd

IsColorBackground(c) == c.fn = "background" /\ "color" \in DOMAIN c.args
IsImageBackground(c) == c.fn = "background" /\ "image" \in DOMAIN c.args

\* C1: every vg.save() of draw_shape is matched by a vg.restore() when the
\* call ends, however it ends, so no save is left open between two calls.
C1_SaveRestoreBalanced == SaveDepth(vg) = 0

\* the ambient style background(color) must leave alone, and the transform
Ambient(r) ==
  <<r.fill_color, r.fill_enabled, r.stroke_color, r.stroke_enabled, r.transform_matrix>>

\* C2: a background(color) call, whether it returns or raises, leaves the
\* fill colour, fill-enabled, stroke colour, stroke-enabled and the global
\* transform as they were before the call.
C2_BackgroundColorRestores ==
  [][IsColorBackground(last') => Ambient(renderer') = Ambient(renderer)]_vars

\* a background(color) call has returned under a fill of another colour, an
\* enabled stroke and a translated transform, and has drawn its rectangle
C2_Witness ==
  /\ IsColorBackground(last) /\ last.outcome = "ok"
  /\ renderer.background_color = Normalized(GREEN)
  /\ renderer.fill_color = COLOR_WHITE /\ renderer.stroke_enabled
  /\ renderer.transform_matrix # IDENTITY
  /\ InLog(Cmd("rect", <<0, 0, width, height>>))

\* C3: background(image) with an image of the sketch's size returns and
\* leaves fill, stroke, tint and the global transform as they were.
C3_BackgroundImageRestores ==
  [][(IsImageBackground(last') /\ last'.args.image = <<width, height>>)
       => /\ last'.outcome = "ok"
          /\ Ambient(renderer') = Ambient(renderer)
          /\ renderer'.tint_color = renderer.tint_color
          /\ renderer'.tint_enabled = renderer.tint_enabled]_vars

\* a background(image) call has returned and drawn the image while a tint
\* is enabled and the transform is translated
C3_Witness ==
  /\ IsImageBackground(last) /\ last.outcome = "ok"
  /\ renderer.tint_enabled /\ ~renderer.fill_enabled
  /\ renderer.transform_matrix # IDENTITY
  /\ InLog(Cmd("fillPaint", <<>>))

\* C4: background(image) with an image of another size raises ValueError
\* and changes neither the style, nor the transform, nor the image mode, nor
\* the commands already sent to the canvas.
C4_SizeMismatchRaisesFirst ==
  [][(IsImageBackground(last') /\ last'.args.image # <<width, height>>)
       => /\ last'.outcome = "ValueError"
          /\ renderer' = renderer
          /\ _image_mode' = _image_mode
          /\ vg' = vg]_vars

\* a mismatched image was refused after a drawing of the same frame
C4_Witness ==
  /\ IsImageBackground(last) /\ last.outcome = "ValueError"
  /\ last.args.image # <<width, height>>
  /\ Drawn(vg) > 0

\* the calls of C5: the factory functions that validate a mode
Validating == {"rect", "square", "ellipse", "circle", "arc"}

\* the call is made with a mode its function refuses
RefusedMode(c, rmode, emode) ==
  /\ c.fn \in Validating
  /\ LET m == EffMode(c.args.mode, IF c.fn \in {"rect", "square"} THEN rmode ELSE emode)
     IN \/ m \notin ModeNames
        \/ m = "CORNERS" /\ c.fn \in {"square", "circle", "arc"}

\* C5: rect, ellipse or arc called with an unrecognised mode, and square or
\* circle called in CORNERS mode, raise ValueError without building a shape,
\* and the commands on the canvas are those that were there before the call.
C5_FailedValidationDrawsNothing ==
  [][RefusedMode(last', _rect_mode, _ellipse_mode)
       => /\ last'.outcome = "ValueError"
          /\ last'.shape = NoShape
          /\ vg' = vg]_vars

\* rect was refused for its mode after a shape of the same frame was drawn
C5_Witness ==
  /\ last.fn = "rect" /\ last.args.mode = "DIAGONAL"
  /\ last.outcome = "ValueError" /\ last.raised_in = "rect"
  /\ Drawn(vg) > 0 /\ InLog(Cmd("restore", <<>>))

\* C6: stroke_cap and stroke_join called with a name outside their three
\* raise ValueError and leave every global as it was; called with one of the
\* three they set that global and no other.
C6_CapJoinValidated ==
  [][/\ last'.fn = "stroke_cap" =>
          IF last'.args[1] \in CapNames
            THEN /\ last'.outcome = "ok"
                 /\ renderer' = [renderer EXCEPT !.stroke_cap = last'.args[1]]
            ELSE last'.outcome = "ValueError" /\ renderer' = renderer
     /\ last'.fn = "stroke_join" =>
          IF last'.args[1] \in JoinNames
            THEN /\ last'.outcome = "ok"
                 /\ renderer' = [renderer EXCEPT !.stroke_join = last'.args[1]]
            ELSE last'.outcome = "ValueError" /\ renderer' = renderer]_vars

\* stroke_cap was refused a join's name while the cap and the join were not
\* the defaults
C6_Witness ==
  /\ last.fn = "stroke_cap" /\ last.args = <<"MITER">> /\ last.outcome = "ValueError"
  /\ renderer.stroke_cap = "SQUARE" /\ renderer.stroke_join = "ROUND"

\* C7: square and circle raise ValueError in their own body, before rect or
\* ellipse is entered and before any command is sent, whenever the mode they
\* work with is CORNERS, passed or inherited.
C7_NoSquareOrCircleFromCorners ==
  [][(/\ last'.fn \in {"square", "circle"}
      /\ EffMode(last'.args.mode,
                 IF last'.fn = "square" THEN _rect_mode ELSE _ellipse_mode) = "CORNERS")
       => /\ last'.outcome = "ValueError"
          /\ last'.raised_in = last'.fn
          /\ last'.shape = NoShape
          /\ vg' = vg]_vars

\* square was refused under an inherited CORNERS mode
C7_Witness ==
  /\ last.fn = "square" /\ last.args.mode = "None" /\ _rect_mode = "CORNERS"
  /\ last.outcome = "ValueError" /\ last.raised_in = "square"

\* the rectangle a rect call describes, as the corner, width and height that
\* describe it in CORNER mode
DescribedRect(m, c, args) ==
  CASE m = "CENTER"  -> [corner |-> <<c[1] - Half(args[1]), c[2] - Half(args[2])>>,
                         dims |-> args]
    [] m = "RADIUS"  -> [corner |-> <<c[1] - args[1], c[2] - args[2]>>,
                         dims |-> <<2 * args[1], 2 * args[2]>>]
    [] m = "CORNERS" -> [corner |-> c,
                         dims |-> <<args[1][1] - c[1], args[1][2] - c[2]>>]
    [] OTHER         -> [corner |-> c, dims |-> args]

\* C8: a rect call in any of the four modes returns the Rect that the CORNER
\* call describing the same rectangle returns.
C8_SameRectInEveryMode ==
  (last.fn = "rect" /\ last.shape # NoShape)
    => LET d == DescribedRect(EffMode(last.args.mode, _rect_mode),
                              last.args.coordinate, last.args.args)
       IN /\ last.outcome = "ok"
          /\ last.shape = rect_func(renderer, "CORNER", d.corner, d.dims, "CORNER").shape

\* C9: rect in CORNERS mode with a second corner left of or below the first
\* returns, builds a Rect of negative width or height, and the canvas gets
\* the rect command with those signed extents.
C9_NegativeExtentDrawn ==
  (/\ last.fn = "rect" /\ last.shape # NoShape
   /\ EffMode(last.args.mode, _rect_mode) = "CORNERS"
   /\ \/ last.args.args[1][1] < last.args.coordinate[1]
      \/ last.args.args[1][2] < last.args.coordinate[2])
    => LET p == last.args.coordinate
           q == last.args.args[1]
       IN /\ last.outcome = "ok"
          /\ last.shape._width = q[1] - p[1]
          /\ last.shape._height = q[2] - p[2]
          /\ InLog(Cmd("rect", <<p[1], p[2], q[1] - p[1], q[2] - p[2]>>))

\* the ellipse an ellipse call describes: its centre and its two radii
DescribedEllipse(m, c, args) ==
  CASE m = "CORNER"  -> <<c[1] + Half(args[1]), c[2] + Half(args[2]),
                          Half(args[1]), Half(args[2])>>
    [] m = "CENTER"  -> <<c[1], c[2], Half(args[1]), Half(args[2])>>
    [] m = "RADIUS"  -> <<c[1], c[2], args[1], args[2]>>
    [] OTHER         -> <<c[1] + Half(args[1][1] - c[1]), c[2] + Half(args[1][2] - c[2]),
                          Half(args[1][1] - c[1]), Half(args[1][2] - c[2])>>

\* C10: an ellipse call in any of the four modes returns, and the canvas
\* gets the ellipse command with the centre and the radii of the ellipse the
\* call describes, so calls describing one ellipse draw one ellipse.
C10_SameEllipseInEveryMode ==
  (last.fn = "ellipse" /\ last.shape # NoShape)
    => /\ last.outcome = "ok"
       /\ InLog(Cmd("ellipse", DescribedEllipse(EffMode(last.args.mode, _ellipse_mode),
                                                last.args.coordinate, last.args.args)))

\* the steps of a call: the commands it sent are those after the old ones
NewCmds == SubSeq(vg', Len(vg) + 1, Len(vg'))

\* the centre and the radii of the parent ellipse an arc call describes
DescribedArc(m, c, w, h) ==
  CASE m = "CORNER" -> [center |-> <<c[1] + Half(w), c[2] + Half(h)>>,
                        radii |-> <<Half(w), Half(h)>>]
    [] m = "CENTER" -> [center |-> c, radii |-> <<Half(w), Half(h)>>]
    [] OTHER        -> [center |-> c, radii |-> <<w, h>>]

\* C11: the Arc an arc call builds stores the centre and the radii of the
\* parent ellipse the call describes in its ellipse mode (CORNER, CENTER or
\* RADIUS), and no Arc is built in any other ellipse mode.
C11_ArcStoresParentEllipse ==
  (last.fn = "arc")
    => LET m == EffMode(last.args.mode, _ellipse_mode)
       IN IF m \in {"CORNER", "CENTER", "RADIUS"}
            THEN LET d == DescribedArc(m, last.args.coordinate,
                                       last.args.args[1], last.args.args[2])
                 IN /\ last.shape # NoShape
                    /\ SubSeq(last.shape._center, 1, 2) = d.center
                    /\ SubSeq(last.shape._radii, 1, 2) = d.radii
            ELSE last.shape = NoShape /\ last.outcome = "ValueError"

\* the arc command is followed by the line to the arc's centre
ClosedToCentre(cmds, shape) ==
  \E i \in 1..(Len(cmds) - 1) :
    /\ cmds[i][1] = "arc"
    /\ cmds[i + 1] = Cmd("lineTo", SubSeq(shape._center, 1, 2))

\* C12: drawing an Arc sends one arc command; the line to the arc's centre
\* follows it when the Arc has the "pie" attribute, and no lineTo is sent
\* when it has not.
C12_PieClosesToCentre ==
  [][(last'.fn = "arc" /\ last'.outcome = "ok")
       => /\ CountCmd(NewCmds, "arc") = 1
          /\ IF "pie" \in last'.shape.attribs
               THEN ClosedToCentre(NewCmds, last'.shape)
               ELSE CountCmd(NewCmds, "lineTo") = 0]_vars

\* an arc without the "pie" attribute was drawn, with no line to its centre
C12_Witness ==
  /\ last.fn = "arc" /\ last.outcome = "ok"
  /\ "pie" \notin last.shape.attribs
  /\ CountCmd(vg, "arc") = 1 /\ CountCmd(vg, "lineTo") = 0

\* C13: an arc call that leaves the mode out builds an Arc with the "open"
\* and "pie" attributes and its drawing has the line to the centre.
C13_DefaultArcIsPie ==
  [][(last'.fn = "arc" /\ last'.shape # NoShape /\ last'.args.args[5] = "omitted")
       => /\ last'.shape.attribs = {"open", "pie"}
          /\ last'.outcome = "ok"
          /\ ClosedToCentre(NewCmds, last'.shape)]_vars

\* an arc called without a mode was drawn
C13_Witness ==
  /\ last.fn = "arc" /\ last.outcome = "ok" /\ last.args.args[5] = "omitted"
  /\ "pie" \in last.shape.attribs
  /\ CountCmd(vg, "lineTo") = 1

\* C14: a draw_shape call for a shape whose fill is None sends neither
\* fillColor nor fill, and for a shape whose stroke is None neither
\* strokeColor nor stroke, whatever the shape's kind.
C14_NoPaintWithoutColour ==
  [][(last'.shape # NoShape)
       => /\ last'.shape.fill = None
               => CountCmd(NewCmds, "fillColor") + CountCmd(NewCmds, "fill") = 0
          /\ last'.shape.stroke = None
               => CountCmd(NewCmds, "strokeColor") + CountCmd(NewCmds, "stroke") = 0]_vars

\* a rect was drawn with neither fill nor stroke
C14_Witness ==
  /\ last.fn = "rect" /\ last.outcome = "ok"
  /\ last.shape.fill = None /\ last.shape.stroke = None
  /\ InLog(Cmd("rect", <<2, 2, 4, 2>>))
  /\ CountCmd(vg, "fill") + CountCmd(vg, "stroke") = 0

\* C15: a drawn shape's fill and stroke colours reach the canvas as
\* fillColor(r, g, b, a) and strokeColor(r, g, b, a), in the order of the
\* normalised colour.
C15_CanonicalColourOrder ==
  (last.shape # NoShape /\ last.outcome = "ok")
    => /\ (Kind(last.shape) = "poly" /\ last.shape.fill # None)
            => InLog(Cmd("fillColor", last.shape.fill))
       /\ last.shape.stroke # None
            => InLog(Cmd("strokeColor", last.shape.stroke))

\* the commands of rendering each of the shapes, one after the other
RECURSIVE RenderAll(_, _)
RenderAll(r, shapes) ==
  IF shapes = <<>> THEN <<>>
  ELSE renderer_draw_shape(r, Head(shapes)).cmds \o RenderAll(r, Tail(shapes))

\* C16: draw_shape on a shape with n children returns, and has sent the
\* commands of n + 1 renderings: the parent's, then each child's in the
\* order the children were added.
C16_ParentThenChildrenInOrder ==
  [][(last'.fn = "draw_shape" /\ last'.shape.type = "PShape")
       => /\ last'.outcome = "ok"
          /\ CountCmd(NewCmds, "beginPath") = 1 + Len(last'.shape.children)
          /\ NewCmds = RenderAll(renderer, <<last'.shape>> \o last'.shape.children)]_vars

\* the factory functions that draw what they return
Factories == {"rect", "ellipse", "arc", "line", "point", "triangle", "quad", "bezier"}

\* C17: a factory call whose arguments and mode build a shape returns, and
\* has handed that shape to the renderer once: one path was begun for it.
C17_DrawnOnceOnReturn ==
  [][(last'.fn \in Factories /\ last'.shape # NoShape)
       => /\ last'.outcome = "ok"
          /\ CountCmd(NewCmds, "beginPath") = 1]_vars

\* C18: create_shape with a valid kind returns the shape and sends no
\* command to the canvas.
C18_CreateShapeDrawsNothing ==
  [][(last'.fn = "create_shape" /\ last'.args.kind \in ShapeKinds)
       => /\ last'.outcome = "ok"
          /\ last'.shape # NoShape
          /\ vg' = vg]_vars

\* the classes the renderer's dispatch has a branch for
Recognised == {"PShape", "Arc", "Ellipse", "Rect", "Bezier"}

\* C19: rendering a shape of a class the dispatch has no branch for raises
\* and sends no command, and every shape the factory builds is of a class
\* the dispatch has a branch for.
C19_UnknownKindFailsFast ==
  [][/\ (last'.shape # NoShape /\ last'.shape.type \notin Recognised)
          => last'.outcome = "FatalInternalError" /\ vg' = vg
     /\ (last'.shape # NoShape /\ last'.fn # "draw_shape")
          => last'.shape.type \in Recognised]_vars

\* C20: over the ticks of a sketch, setup_method is the first callback run
\* and is run once, and draw_method runs only after setup_method returned,
\* in a later frame.
C20_SetupOnceBeforeDraw ==
  \A i \in 1..Len(sketch.ran) :
    /\ sketch.ran[i].callback = "setup_method" <=> i = 1
    /\ sketch.ran[i].callback = "draw_method"
         => /\ sketch.ran[1].outcome = "returns"
            /\ sketch.ran[i].frame > sketch.ran[1].frame

\* C21: fill, stroke and tint return the Color built from their arguments,
\* background called with a colour returns that colour, and background
\* called with an image returns the image.
C21_SettersReturnWhatTheySet ==
  (last.outcome = "ok")
    => /\ last.fn \in {"fill", "stroke", "tint"} => last.returned = Color(last.args)
       /\ IsColorBackground(last) => last.returned = Color(last.args.color)
       /\ IsImageBackground(last) => last.returned = Image(last.args.image)

\* the x and y of a vertex
XY(v) == SubSeq(v, 1, 2)

\* C22: the shape a curve call builds is a path of curve_resolution + 1
\* vertices, the i-th the sample at t = (i - 1) / curve_resolution, the
\* first at the second control point and the last at the third.
C22_CurveSampledThroughInnerPoints ==
  (last.fn = "curve" /\ last.shape # NoShape)
    => LET v == last.shape.vertices
           p == last.args.args
           steps == curve_resolution
       IN /\ Kind(last.shape) = "path"
          /\ Len(v) = steps + 1
          /\ \A j \in 1..Len(v) :
               XY(v[j]) = XY(curve_point(p[1], p[2], p[3], p[4], j - 1, steps, 2))
          /\ XY(v[1]) = Scaled(p[2], steps)
          /\ XY(v[Len(v)]) = Scaled(p[3], steps)

\* a curve was built whose samples between the ends lie off both inner
\* control points
C22_Witness ==
  /\ last.fn = "curve" /\ last.shape # NoShape
  /\ Len(last.shape.vertices) = curve_resolution + 1
  /\ XY(last.shape.vertices[2]) # Scaled(last.args.args[2], curve_resolution)
  /\ XY(last.shape.vertices[2]) # Scaled(last.args.args[3], curve_resolution)

\* C23: over the ticks of a sketch, every beginFrame is followed by its
\* endFrame before the next beginFrame, also when the callback of the frame
\* raised
C23_FrameClosedBeforeNextOpens ==
  \A i \in 1..(Len(sketch.frames) - 1) :
    sketch.frames[i] = "beginFrame" => sketch.frames[i + 1] = "endFrame"

\* the names of the commands, in the order sent
Names(cmds) == [i \in 1..Len(cmds) |-> cmds[i][1]]

\* C24: the drawing of a shape of a fillable kind that has a fill and a
\* stroke returns, and ends with restore, lineCap, lineJoin and strokeWidth
\* of the shape's own cap, join and weight, then the fill colour and fill,
\* then the stroke colour and stroke; fill and stroke are sent once each and
\* the path is built before the restore.  create_shape(None) builds a shape
\* that is not drawn.
C24_StyleThenFillThenStroke ==
  [][(/\ last'.shape # NoShape
      /\ ~(last'.fn = "create_shape" /\ last'.args.kind = "None")
      /\ last'.shape.type \in {"PShape", "Rect", "Ellipse", "Arc"}
      /\ Kind(last'.shape) = "poly"
      /\ last'.shape.fill # None /\ last'.shape.stroke # None)
       => LET n == Len(NewCmds)
              path == SubSeq(NewCmds, 1, n - 8)
          IN /\ last'.outcome = "ok"
             /\ n > 8
             /\ CountCmd(NewCmds, "fill") = 1
             /\ CountCmd(NewCmds, "stroke") = 1
             /\ SubSeq(NewCmds, n - 7, n - 4) =
                  << Cmd("restore", <<>>),
                     Cmd("lineCap", <<CapType(last'.shape.stroke_cap)>>),
                     Cmd("lineJoin", <<JoinType(last'.shape.stroke_join)>>),
                     Cmd("strokeWidth", <<last'.shape.stroke_weight>>) >>
             /\ Names(SubSeq(NewCmds, n - 3, n)) =
                  <<"fillColor", "fill", "strokeColor", "stroke">>
             /\ CountCmd(path, "beginPath") = 1
             /\ \E i \in 1..Len(path) :
                  path[i][1] \in {"rect", "ellipse", "arc", "moveTo"}]_vars

\* C25: every drawing of a shape starts by setting shapeAntiAlias from the
\* smooth flag and then begins its path, whatever was drawn before it; the
\* drawing of a point then switches shapeAntiAlias off and sends one rect of
\* 1 by 1 at the point's vertex, right after the switch.
C25_PointAliasedAndNoLeak ==
  [][(last'.shape # NoShape /\ NewCmds # <<>>)
       => /\ Len(NewCmds) >= 2
          /\ NewCmds[1] = Cmd("shapeAntiAlias", <<IF renderer.smooth THEN 1 ELSE 0>>)
          /\ NewCmds[2] = Cmd("beginPath", <<>>)
          /\ (Kind(last'.shape) = "point" /\ last'.shape.type = "PShape")
               => /\ last'.outcome = "ok"
                  /\ CountCmd(NewCmds, "rect") = 1
                  /\ \E i \in 3..(Len(NewCmds) - 1) :
                       /\ NewCmds[i] = Cmd("shapeAntiAlias", <<0>>)
                       /\ NewCmds[i + 1] = Cmd("rect", << last'.shape.vertices[1][1],
                                                          last'.shape.vertices[1][2], 1, 1 >>)]_vars

\* with smooth on, a point was drawn with anti-aliasing switched off and the
\* triangle drawn after it in the same frame had it switched on again
C25_Witness ==
  /\ renderer.smooth
  /\ last.fn = "draw_shape" /\ last.outcome = "ok" /\ Kind(last.shape) = "poly"
  /\ \E i \in 1..Len(vg) : \E j \in (i + 2)..Len(vg) :
       /\ vg[i] = Cmd("shapeAntiAlias", <<0>>)
       /\ vg[i + 1] = Cmd("rect", <<2, 2, 1, 1>>)
       /\ vg[j] = Cmd("shapeAntiAlias", <<1>>)
       /\ j < Len(vg) /\ vg[j + 1] = Cmd("beginPath", <<>>)
       /\ \E k \in (j + 2)..Len(vg) : vg[k] = Cmd("moveTo", <<0, 0>>)

\* what a tick runs to render its frame
RenderSteps == {"start_render", "setup_method", "draw_method", "end_render"} \cup CallbackDoes

\* C26: a timer tick invokes the handlers of the queue it found, in the
\* queue's order and once each, after everything it ran to render the frame,
\* and leaves the queue empty; a mouse release appends mouse_released and
\* then mouse_clicked, and a mouse move while the button is pressed appends
\* mouse_moved and then mouse_dragged.
C26_HandlersInOrderAfterFrame ==
  [][/\ last'.fn = "on_timer"
          => LET queued == Handlers(sketch.handler_queue)
                 m == Len(last'.args)
                 n == Len(queued)
             IN /\ sketch'.handler_queue = <<>>
                /\ m >= n
                /\ SubSeq(last'.args, m - n + 1, m) = queued
                /\ \A i \in 1..(m - n) : last'.args[i] \in RenderSteps
     /\ last'.fn = "on_mouse_release"
          => Handlers(sketch'.handler_queue)
               = Handlers(sketch.handler_queue) \o <<"mouse_released", "mouse_clicked">>
     /\ (last'.fn = "on_mouse_move" /\ sketch.mouse_is_pressed)
          => Handlers(sketch'.handler_queue)
               = Handlers(sketch.handler_queue) \o <<"mouse_moved", "mouse_dragged">>]_vars

\* C27: a timer tick renders a frame, that is adds one to frame_count and
\* sends beginFrame first and endFrame last, exactly when looping is set or a
\* redraw is pending, and otherwise leaves frame_count and the canvas alone;
\* redraw is cleared before draw_method runs, so that it is set after the
\* tick exactly when draw_method asked for a redraw; and a tick whose
\* setup_method returned leaves a redraw pending, whatever setup_method did
\* to looping, so that the next tick runs draw_method.
C27_RendersIffLoopingOrRedraw ==
  [][last'.fn = "on_timer"
       => LET ran == last'.args
              rendered == /\ sketch'.frame_count = sketch.frame_count + 1
                          /\ Len(vg') >= 2
                          /\ vg'[1][1] = "beginFrame"
                          /\ vg'[Len(vg')][1] = "endFrame"
                          /\ CountCmd(vg', "beginFrame") = 1
                          /\ CountCmd(vg', "endFrame") = 1
              InRan(step) == \E i \in 1..Len(ran) : ran[i] = step
          IN /\ (sketch.looping \/ sketch.redraw) <=> rendered
             /\ ~(sketch.looping \/ sketch.redraw)
                  => /\ sketch'.frame_count = sketch.frame_count
                     /\ vg' = vg
                     /\ ~InRan("start_render")
             /\ InRan("draw_method")
                  => /\ sketch.setup_done
                     /\ sketch'.redraw = InRan("redraw")
             /\ (InRan("setup_method") /\ last'.outcome = "ok")
                  => sketch'.redraw /\ sketch'.setup_done]_vars

\* C28: every frame begins with the global transform matrix reset to the
\* identity and that matrix sent to the canvas right after beginFrame,
\* whatever matrix the frame before left behind; the matrix after the tick
\* is what the frame's own callback made of the identity.
C28_FrameStartsAtIdentity ==
  [][/\ (last'.fn = "on_timer" /\ sketch'.frame_count # sketch.frame_count)
          => /\ Len(vg') >= 2
             /\ vg'[1] = Cmd("beginFrame", <<width, height, 1>>)
             /\ vg'[2] = Transform(IDENTITY)
             /\ renderer'.transform_matrix =
                  IF \E i \in 1..Len(last'.args) : last'.args[i] = "translate"
                    THEN Translated([renderer EXCEPT !.transform_matrix = IDENTITY]).transform_matrix
                    ELSE IDENTITY
     /\ last'.fn = "start_render"
          => /\ renderer'.transform_matrix = IDENTITY
             /\ vg' = << Cmd("beginFrame", <<width, height, 1>>), Transform(IDENTITY) >>]_vars

\* a frame began at the identity after a frame that had moved the transform
\* and was then aborted by an exception
C28_Witness ==
  LET n == Len(sketch.ran)
  IN /\ n >= 2
     /\ sketch.ran[n - 1].called = "translate" /\ sketch.ran[n - 1].outcome = "raises"
     /\ sketch.ran[n].called = "nothing" /\ sketch.ran[n].outcome = "returns"
     /\ last.fn = "on_timer" /\ sketch.frame_count = sketch.ran[n].frame
     /\ renderer.transform_matrix = IDENTITY
     /\ vg[2] = Transform(IDENTITY)

====
